---- MODULE Spec2Model ----
(***************************************************************************)
(* Model of the Galactic-Guide position and trajectory engine:             *)
(*   src/src/celestial_body.rs   CelestialBody, SolarSystem                *)
(*   src/src/celestial_data.rs   get_position, get_traj, frame rotation    *)
(*   src/src/orbit_renderer.rs   render_trajs                              *)
(*   src/src/main.rs             AppState, setup, orbit_editor_ui          *)
(*                                                                         *)
(* Conventions.                                                            *)
(*  - A CelestialBodyId is the string of its enum variant.                 *)
(*  - Option<CelestialBodyId> is the id or the string "None".              *)
(*  - An Epoch is an integer number of ticks, a Duration a signed number   *)
(*    of ticks (hifitime keeps both as integer counts of its resolution).  *)
(*  - A Vec3 is a triple of integers in thousandths of a display unit,     *)
(*    so the factor SOLAR_SYSTEM_SCALE = 0.005 is the integer 5; f32       *)
(*    rounding is not modelled.                                            *)
(*  - The ephemeris dataset (nyx Cosm) is outside the repository; it is a  *)
(*    fixed table of heliocentric positions, see celestial_state.          *)
(***************************************************************************)
EXTENDS Integers, Sequences, FiniteSets, TLC

\* ------------------------------------------------------------------ bounds
\* Largest epoch (in ticks) handed to a position or trajectory query.
MaxEpoch == 2
\* Largest sample count handed to get_traj by a direct caller.
MaxSteps == 3
\* Largest number of ephemeris loads that is counted.
MaxLoads == 2
\* Largest number of entities one World allocates.
MaxEntities == 12

\* ------------------------------------------------------- celestial_body.rs
\* enum CelestialBodyType
CelestialBodyType == {"Star", "Planet", "Moon", "Asteroid"}

\* enum CelestialBodyId, in declaration order (strum's EnumIter order)
CelestialBodyIdIter ==
    <<"Sun", "Mercury", "Venus", "Earth", "Moon", "Mars", "Jupiter", "Saturn",
      "Uranus", "Neptune">>

CelestialBodyId == {CelestialBodyIdIter[i] : i \in 1..Len(CelestialBodyIdIter)}

\* #[default] variant of CelestialBodyId
DefaultBodyId == "Earth"

\* ------------------------------------------------------- celestial_data.rs
\* SOLAR_SYSTEM_SCALE = 0.005, in thousandths
SOLAR_SYSTEM_SCALE == 5

\* The km radius table of get_radius, in tenths of a km
RadiusTenthKm(body) ==
    CASE body = "Sun" -> 6963400
      [] body = "Mercury" -> 24397
      [] body = "Venus" -> 60518
      [] body = "Earth" -> 63710
      [] body = "Moon" -> 17371
      [] body = "Mars" -> 33895
      [] body = "Jupiter" -> 699110
      [] body = "Saturn" -> 582320
      [] body = "Uranus" -> 253620
      [] body = "Neptune" -> 246220

\* get_radius: the table value times the scale (in 1/10000 display units)
get_radius(body) == RadiusTenthKm(body) * SOLAR_SYSTEM_SCALE

\* ------------------------------------------------------- celestial_body.rs
\* CelestialBody::new
NewCelestialBody(name, body_type, radius, parent_id) ==
    [name |-> name, body_type |-> body_type, radius |-> radius,
     parent_id |-> parent_id]

\* CelestialBody::get_id: the id is recovered from the display name
get_id(body) ==
    IF body.name \in CelestialBodyId THEN body.name ELSE "Sun"

\* (variant: the Moon's row is given the parent of the rows around it)
CatalogParent_MoonUnderSun(id) ==
    CASE id = "Sun" -> "None"
      [] OTHER -> "Sun"

\* The catalog rows of SolarSystem::new: <<id, type, parent>>
CatalogParent(id) ==
    CASE id = "Sun" -> "None"
      [] id = "Moon" -> "Earth"
      [] OTHER -> "Sun"

CatalogType(id) ==
    CASE id = "Sun" -> "Star"
      [] id = "Moon" -> "Moon"
      [] OTHER -> "Planet"

\* SolarSystem::new
SolarSystemNew ==
    [bodies |-> [id \in CelestialBodyId |->
        NewCelestialBody(id, CatalogType(id), get_radius(id), CatalogParent(id))]]

\* #[derive(Default)] for SolarSystem: an empty HashMap
SolarSystemDefault == [bodies |-> <<>>]

\* A registry built through the public API (CelestialBody::new and the pub
\* field bodies): the catalog, with the record under the key Earth created
\* with a display name that is no variant's name
SolarSystemRenamed ==
    [bodies |-> [SolarSystemNew.bodies EXCEPT !["Earth"] =
        NewCelestialBody("Terra", "Planet", get_radius("Earth"), "Sun")]]

\* The orders in which HashMap::iter may visit the ten keys: the hasher is
\* seeded at random per map, so the order is any one of these, fixed for
\* the life of the map.  Rotations of the declaration order and of its
\* reverse put every pair of keys in both relative orders.
Rotate(s, k) == [i \in 1..Len(s) |-> s[((i + k - 1) % Len(s)) + 1]]

Reverse(s) == [i \in 1..Len(s) |-> s[Len(s) + 1 - i]]

IterOrders ==
    {Rotate(CelestialBodyIdIter, k) : k \in {0, 5}}
        \cup {Reverse(CelestialBodyIdIter)}

\* self.bodies.iter(): the keys present, in the map's iteration order
BodiesIter(solar_system, order) ==
    SelectSeq(order, LAMBDA id : id \in DOMAIN solar_system.bodies)

\* self.bodies.get(&id) as a sequence of zero or one body
BodiesGet(solar_system, id) ==
    IF id # "None" /\ id \in DOMAIN solar_system.bodies
    THEN <<solar_system.bodies[id]>>
    ELSE <<>>

\* (variant: the moon loop compares with the selected body's own parent)
MoonsOf_ParentOfSelected(solar_system, order, body_id) ==
    LET keys == BodiesIter(solar_system, order)
        hits == SelectSeq(keys, LAMBDA id :
                    solar_system.bodies[id].parent_id # "None"
                    /\ solar_system.bodies[id].parent_id
                         = solar_system.bodies[body_id].parent_id)
    IN  [i \in 1..Len(hits) |-> solar_system.bodies[hits[i]]]

\* The moon loop of get_visible_bodies: every body whose parent is body_id,
\* in iteration order
MoonsOf(solar_system, order, body_id) ==
    LET keys == BodiesIter(solar_system, order)
        hits == SelectSeq(keys, LAMBDA id :
                    solar_system.bodies[id].parent_id # "None"
                    /\ solar_system.bodies[id].parent_id = body_id)
    IN  [i \in 1..Len(hits) |-> solar_system.bodies[hits[i]]]

\* (variant: no early return, the star's children are listed as well)
VisibleFromStar_NoEarlyReturn(solar_system, order, body_id) ==
    <<solar_system.bodies[body_id]>> \o MoonsOf(solar_system, order, body_id)

\* get_visible_bodies, the Star arm: the star alone
VisibleFromStar(solar_system, order, body_id) ==
    <<solar_system.bodies[body_id]>>

\* get_visible_bodies, the Planet arm: the planet, its parent if the map
\* has it, then its moons
VisibleFromPlanet(solar_system, order, body_id) ==
    LET body == solar_system.bodies[body_id] IN
    <<body>> \o BodiesGet(solar_system, body.parent_id)
             \o MoonsOf(solar_system, order, body_id)

\* (variant: the grandparent is looked up through the moon's own parent id)
VisibleFromMoon_OwnParentTwice(solar_system, order, body_id) ==
    LET body == solar_system.bodies[body_id]
        parent == BodiesGet(solar_system, body.parent_id)
    IN  IF parent = <<>> THEN <<body>>
        ELSE <<body>> \o parent \o BodiesGet(solar_system, body.parent_id)

\* get_visible_bodies, the Moon arm: the moon, its parent if the map has
\* it, then the parent's parent if the map has it
VisibleFromMoon(solar_system, order, body_id) ==
    LET body == solar_system.bodies[body_id]
        parent == BodiesGet(solar_system, body.parent_id)
    IN  IF parent = <<>> THEN <<body>>
        ELSE <<body>> \o parent
                      \o BodiesGet(solar_system, parent[1].parent_id)

\* SolarSystem::get_visible_bodies
get_visible_bodies(solar_system, order, body_id) ==
    IF body_id \notin DOMAIN solar_system.bodies THEN <<>>
    ELSE
      LET body == solar_system.bodies[body_id] IN
      CASE body.body_type = "Star" ->
             VisibleFromStar(solar_system, order, body_id)
        [] body.body_type = "Planet" ->
             VisibleFromPlanet(solar_system, order, body_id)
        [] body.body_type = "Moon" ->
             VisibleFromMoon(solar_system, order, body_id)
        [] OTHER -> <<body>>

\* ------------------------------------------------------- celestial_data.rs
\* Vec3 arithmetic (bevy::math::Vec3)
Vec3(x, y, z) == <<x, y, z>>

Vec3ZERO == <<0, 0, 0>>

Vec3Sub(a, b) == <<a[1] - b[1], a[2] - b[2], a[3] - b[3]>>

Vec3Scale(a, k) == <<a[1] * k, a[2] * k, a[3] * k>>

\* get_ephem_path: the nyx body whose ephemeris is read for an id
get_ephem_path(body) ==
    CASE body = "Sun" -> "Sun"
      [] body = "Mercury" -> "Mercury"
      [] body = "Venus" -> "Venus"
      [] body = "Earth" -> "Earth"
      [] body = "Moon" -> "Luna"
      [] body = "Mars" -> "MarsBarycenter"
      [] body = "Jupiter" -> "JupiterBarycenter"
      [] body = "Saturn" -> "SaturnBarycenter"
      [] body = "Uranus" -> "UranusBarycenter"
      [] body = "Neptune" -> "NeptuneBarycenter"

\* get_frame: the frame centred on the body's ephemeris path
get_frame(body) == get_ephem_path(body)

\* The dataset behind Cosm: a heliocentric position in km for every
\* ephemeris path and epoch.  The table is synthetic; it moves every body
\* but the Sun with time and keeps the bodies apart.
EphemIndex(path) ==
    CASE path = "Sun" -> 0
      [] path = "Mercury" -> 1
      [] path = "Venus" -> 2
      [] path = "Earth" -> 3
      [] path = "Luna" -> 4
      [] path = "MarsBarycenter" -> 5
      [] path = "JupiterBarycenter" -> 6
      [] path = "SaturnBarycenter" -> 7
      [] path = "UranusBarycenter" -> 8
      [] path = "NeptuneBarycenter" -> 9

Heliocentric(path, time) ==
    LET k == EphemIndex(path)
        t == time % 1009
    IN  IF k = 0 THEN <<0, 0, 0>>
        ELSE <<100 * k + (k + 1) * t, 7 * k - t, k * k + 2 * k * t + 1>>

\* Cosm::celestial_state(target, time, frame, correction): the position of
\* the target in the frame's centre at the epoch
celestial_state(target, time, frame) ==
    Vec3Sub(Heliocentric(target, time), Heliocentric(frame, time))

\* get_position: query the state, swap y and z, scale to display units
get_position(target_body, central_body, time) ==
    LET target == get_ephem_path(target_body)
        frame == get_frame(central_body)
        orbit == celestial_state(target, time, frame)
    IN  Vec3Scale(Vec3(orbit[1], orbit[3], orbit[2]), SOLAR_SYSTEM_SCALE)

\* Calls into the Cosm made by one get_position: get_frame and
\* celestial_state
GetPositionReads == 2

\* get_axial_tilt, in hundredths of a degree
get_axial_tilt(body) ==
    CASE body = "Sun" -> 725
      [] body = "Mercury" -> 3
      [] body = "Venus" -> 264
      [] body = "Earth" -> 2340
      [] body = "Moon" -> 670
      [] body = "Mars" -> 2520
      [] body = "Jupiter" -> 310
      [] body = "Saturn" -> 2670
      [] body = "Uranus" -> 8220
      [] body = "Neptune" -> 2830

\* f32::cos and f32::sin of an angle given in hundredths of a degree, in
\* thousandths, for the angles of the tilt table
Cos1000(tilt) ==
    CASE tilt = 725 -> 992
      [] tilt = 3 -> 1000
      [] tilt = 264 -> 999
      [] tilt = 2340 -> 918
      [] tilt = 670 -> 993
      [] tilt = 2520 -> 905
      [] tilt = 310 -> 999
      [] tilt = 2670 -> 893
      [] tilt = 8220 -> 136
      [] tilt = 2830 -> 880

Sin1000(tilt) ==
    CASE tilt = 725 -> 126
      [] tilt = 3 -> 1
      [] tilt = 264 -> 46
      [] tilt = 2340 -> 397
      [] tilt = 670 -> 117
      [] tilt = 2520 -> 426
      [] tilt = 310 -> 54
      [] tilt = 2670 -> 449
      [] tilt = 8220 -> 991
      [] tilt = 2830 -> 474

\* Rounding of a product of thousandths back to the Vec3 unit, toward zero
Round1000(n) == IF n >= 0 THEN n \div 1000 ELSE -((-n) \div 1000)

\* (variant: the rotation uses the Earth's obliquity for every body)
equatorial_to_ecliptic_EarthObliquity(pos, central_body) ==
    LET x == pos[1]
        y == pos[2]
        z == pos[3]
        obliquity == get_axial_tilt("Earth")
        x_prime == x
        y_prime == Round1000(y * Cos1000(obliquity) - z * Sin1000(obliquity))
        z_prime == Round1000(y * Sin1000(obliquity) + z * Cos1000(obliquity))
    IN  Vec3(x_prime, y_prime, z_prime)

\* equatorial_to_ecliptic: rotation about x by the tilt of central_body
equatorial_to_ecliptic(pos, central_body) ==
    LET x == pos[1]
        y == pos[2]
        z == pos[3]
        axial_tilt == get_axial_tilt(central_body)
        x_prime == x
        y_prime == Round1000(y * Cos1000(axial_tilt) - z * Sin1000(axial_tilt))
        z_prime == Round1000(y * Sin1000(axial_tilt) + z * Cos1000(axial_tilt))
    IN  Vec3(x_prime, y_prime, z_prime)

\* The outcome of a call: a returned value or a panic, with the number of
\* calls it made into a Cosm handle and the number of datasets it loaded
Ok(value, reads, loaded) ==
    [kind |-> "ok", value |-> value, cosm_reads |-> reads, loaded |-> loaded]

Panic(reads, loaded) ==
    [kind |-> "panic", value |-> <<>>, cosm_reads |-> reads, loaded |-> loaded]

\* Duration / f64 (hifitime): the quotient of two tick counts, toward zero
DurationDiv(d, q) == IF d >= 0 THEN d \div q ELSE -((-d) \div q)

\* get_traj, the planet branch: heliocentric samples re-based on the central
\* body's heliocentric position at start_time, then one zero vector.  The
\* step is not used when steps = 0.
PlanetTrajectory(target_body, central_body, start_time, end_time, steps) ==
    LET central_position == get_position(central_body, "Sun", start_time)
        time_step == IF steps = 0 THEN 0
                     ELSE DurationDiv(end_time - start_time, steps)
        sampled == [i \in 1..steps |->
            Vec3Sub(get_position(target_body, "Sun",
                                 start_time + time_step * (i - 1)),
                    central_position)]
    IN  sampled \o <<Vec3ZERO>>

\* (variant: the loop runs from 1 to steps instead of from 0 to steps - 1)
MoonTrajectory_LoopFromOne(target_body, central_body, start_time, end_time, steps) ==
    LET time_step == IF steps = 0 THEN 0
                     ELSE DurationDiv(end_time - start_time, steps)
    IN  [i \in 1..steps |->
            get_position(target_body, central_body,
                         start_time + time_step * i)]

\* get_traj, the moon/asteroid branch: samples in the central body's frame.
\* The step is not used when steps = 0.
MoonTrajectory(target_body, central_body, start_time, end_time, steps) ==
    LET time_step == IF steps = 0 THEN 0
                     ELSE DurationDiv(end_time - start_time, steps)
    IN  [i \in 1..steps |->
            get_position(target_body, central_body,
                         start_time + time_step * (i - 1))]

\* (variant: the Sun is not set apart and is sampled like a moon)
get_traj_SunSampled(target_body, central_body, start_time, end_time, steps, solar_system, div_zero_panics) ==
    IF target_body \notin DOMAIN solar_system.bodies
    THEN Panic(0, 0)
    ELSE
      LET target_body_type == solar_system.bodies[target_body].body_type IN
      IF target_body_type = "Planet"
      THEN IF steps = 0 /\ div_zero_panics
           THEN Panic(2 + GetPositionReads, 0)
           ELSE Ok(PlanetTrajectory(target_body, central_body, start_time,
                                    end_time, steps),
                   2 + GetPositionReads + steps * GetPositionReads, 0)
      ELSE IF steps = 0 /\ div_zero_panics
           THEN Panic(1, 0)
           ELSE Ok(MoonTrajectory(target_body, central_body, start_time,
                                  end_time, steps),
                   1 + steps * GetPositionReads, 0)

\* get_traj.  div_zero_panics tells whether the Duration division by a
\* zero step count panics in the build (it is the library's choice).
get_traj(target_body, central_body, start_time, end_time, steps, solar_system, div_zero_panics) ==
    IF target_body \notin DOMAIN solar_system.bodies
    THEN Panic(0, 0)                               \* unwrap() on None
    ELSE
      LET target_body_type == solar_system.bodies[target_body].body_type IN
      IF target_body = "Sun" THEN Ok(<<>>, 0, 0)
      ELSE IF target_body_type = "Planet"
      THEN IF steps = 0 /\ div_zero_panics
           THEN Panic(2 + GetPositionReads, 0)
           ELSE Ok(PlanetTrajectory(target_body, central_body, start_time,
                                    end_time, steps),
                   2 + GetPositionReads + steps * GetPositionReads, 0)
      ELSE IF steps = 0 /\ div_zero_panics
           THEN Panic(1, 0)
           ELSE Ok(MoonTrajectory(target_body, central_body, start_time,
                                  end_time, steps),
                   1 + steps * GetPositionReads, 0)

\* ------------------------------------------------------- celestial_body.rs
\* SolarSystem::set_positions: bodies[0] names the central body (indexing an
\* empty slice panics); the dataset is then loaded by default_ephemeris()
\* and every body is placed relative to the central body and rotated by its
\* tilt.
set_positions(bodies, epoch) ==
    IF bodies = <<>> THEN Panic(0, 0)
    ELSE
      LET target_body == get_id(bodies[1])
          body_positions == [i \in 1..Len(bodies) |->
              equatorial_to_ecliptic(
                  get_position(get_id(bodies[i]), target_body, epoch),
                  target_body)]
      IN  Ok(body_positions, Len(bodies) * GetPositionReads, 1)

\* CelestialBody::spawn: the spawn command queued for one body; the entity
\* id is reserved when the command is queued
BodySpawn(body, position, entity) ==
    [cmd |-> "spawn", entity |-> entity, kind |-> "body", name |-> body.name,
     radius |-> body.radius, position |-> position]

\* SolarSystem::spawn_visible: the visible bodies, their positions, and one
\* spawn command per visible body at body_positions[i], the entity ids
\* taken from first_entity on.  The value is the queue of spawn commands;
\* the returned Vec<Entity> is their entity ids.
spawn_visible(solar_system, order, selected_body, epoch, first_entity) ==
    LET visible_bodies == get_visible_bodies(solar_system, order, selected_body)
        body_positions == set_positions(visible_bodies, epoch)
    IN  IF body_positions.kind = "panic"
        THEN Panic(body_positions.cosm_reads, body_positions.loaded)
        ELSE Ok([i \in 1..Len(visible_bodies) |->
                    BodySpawn(visible_bodies[i], body_positions.value[i],
                              first_entity + i - 1)],
                body_positions.cosm_reads, body_positions.loaded)

\* ------------------------------------------------------- orbit_renderer.rs
\* TRAJ_TOTAL_TIME = 86400.0 * 365.5 seconds, in ticks of a tenth of a second
TRAJ_TOTAL_TIME == 86400 * 3655

TRAJ_POINTS == 1000

\* TRAJ_COLOURS.len()
TrajColoursLen == 10

\* (variant: the span ends after a period that depends on the target)
RenderCall_SpanPerBody(body, selected_body, epoch) ==
    [target |-> get_id(body), central |-> selected_body, start |-> epoch,
     end |-> epoch + (TRAJ_TOTAL_TIME \div 10) * (1 + EphemIndex(get_ephem_path(get_id(body)))),
     steps |-> TRAJ_POINTS]

\* The get_traj call render_trajs makes for one visible body
RenderCall(body, selected_body, epoch) ==
    [target |-> get_id(body), central |-> selected_body, start |-> epoch,
     end |-> epoch + TRAJ_TOTAL_TIME, steps |-> TRAJ_POINTS]

\* render_trajs: one polyline per visible body, its vertices the rotated
\* trajectory.  Every polyline is recorded with the call that sampled it.
render_trajs(solar_system, order, selected_body, epoch, div_zero_panics) ==
    LET bodies == get_visible_bodies(solar_system, order, selected_body)
        calls == [i \in 1..Len(bodies) |->
                    RenderCall(bodies[i], selected_body, epoch)]
        trajs == [i \in 1..Len(bodies) |->
                    get_traj(calls[i].target, calls[i].central, calls[i].start,
                             calls[i].end, calls[i].steps, solar_system,
                             div_zero_panics)]
        sum[i \in 0..Len(bodies)] ==
            IF i = 0 THEN 0 ELSE sum[i - 1] + trajs[i].cosm_reads
        reads == sum[Len(bodies)]
    IN  IF \E i \in 1..Len(bodies) : trajs[i].kind = "panic"
        THEN Panic(reads, 0)
        ELSE Ok([i \in 1..Len(bodies) |->
                    LET traj == trajs[i].value IN
                    [call |-> calls[i],
                     vertices |-> [j \in 1..Len(traj) |->
                         equatorial_to_ecliptic(traj[j], selected_body)],
                     colour |-> (i - 1) % TrajColoursLen]],
                reads, 0)

\* ------------------------------------------------------------------ state
VARIABLES
    solar_system,     \* the SolarSystem the queries read
    iter_order,       \* the iteration order of solar_system.bodies
    div_zero_panics,  \* whether Duration / 0.0 panics in this build
    cosm,             \* the Arc<Cosm> the caller holds: "none" or "de438"
    loads,            \* datasets loaded so far (calls of Cosm::de438)
    op,               \* the call whose outcome is held, "none" between calls
    args,             \* its arguments
    result,           \* its outcome
    app_pc,           \* the application: "startup", "running" or "crashed"
    app_state,        \* AppState.selected_body and AppState.drawn_bodies
    world,            \* the entities alive in the application's World
    next_entity,      \* the next entity id the World hands out
    commands          \* the command queue the last system run applied

app_vars == <<app_pc, app_state, world, next_entity, commands>>

vars == <<solar_system, iter_order, div_zero_panics, cosm, loads, op, args,
          result, app_pc, app_state, world, next_entity, commands>>

\* The reference bodies direct callers pass as central_body
CentralBodies == {"Sun", "Earth", "Moon", "Mars"}

NoArgs == [none |-> TRUE]

Epochs == 0..MaxEpoch

\* #[derive(Default)] for AppState, without its solar_system
AppStateDefault == [selected_body |-> DefaultBodyId, drawn_bodies |-> <<>>]

\* No system of the application has run
AppNotStarted ==
    /\ app_pc = "startup"
    /\ app_state = AppStateDefault
    /\ world = {}
    /\ next_entity = 0
    /\ commands = <<>>

\* The registries a caller of the library can hold: built by new or by
\* Default, under any iteration order, or the catalog with a renamed record
Init ==
    /\ \/ /\ solar_system \in {SolarSystemNew, SolarSystemDefault}
          /\ iter_order \in IterOrders
       \/ /\ solar_system = SolarSystemRenamed
          /\ iter_order = CelestialBodyIdIter
    /\ div_zero_panics \in BOOLEAN
    /\ cosm = "none"
    /\ loads = 0
    /\ op = "none"
    /\ args = NoArgs
    /\ result = Ok(<<>>, 0, 0)
    /\ AppNotStarted

\* No call's outcome is held: the caller may make the next call
Idle == op = "none"

\* (variant: a call takes the bodies map out of the registry)
Call_TakesBodies(name, arguments, outcome) ==
    /\ op' = name
    /\ args' = arguments
    /\ result' = outcome
    /\ loads' = loads + result'.loaded
    /\ loads' <= MaxLoads
    /\ solar_system' = SolarSystemDefault
    /\ UNCHANGED <<iter_order, div_zero_panics>>
    /\ UNCHANGED app_vars

\* One call completes: its outcome is held until the caller drops it
Call(name, arguments, outcome) ==
    /\ op' = name
    /\ args' = arguments
    /\ result' = outcome
    /\ loads' = loads + result'.loaded
    /\ loads' <= MaxLoads
    /\ UNCHANGED <<solar_system, iter_order, div_zero_panics>>
    /\ UNCHANGED app_vars

\* default_ephemeris(): the caller loads the dataset and keeps the handle
DefaultEphemeris ==
    /\ Idle
    /\ Call("default_ephemeris", NoArgs, Ok(<<>>, 0, 1))
    /\ cosm' = "de438"

\* solar_system.get_visible_bodies(body_id)
GetVisibleBodies ==
    /\ Idle
    /\ \E body_id \in CelestialBodyId :
        /\ Call("get_visible_bodies", [body_id |-> body_id],
                Ok(get_visible_bodies(solar_system, iter_order, body_id), 0, 0))
        /\ UNCHANGED cosm

\* get_position(target, central, &epoch, &cosm) with the caller's handle
GetPosition ==
    /\ Idle
    /\ cosm # "none"
    /\ \E target \in CelestialBodyId, central \in CentralBodies, epoch \in Epochs :
        /\ Call("get_position",
                [target |-> target, central |-> central, epoch |-> epoch],
                Ok(<<get_position(target, central, epoch)>>,
                   GetPositionReads, 0))
        /\ UNCHANGED cosm

\* get_traj(target, central, start, end, steps, &solar_system, &cosm)
GetTraj ==
    /\ Idle
    /\ cosm # "none"
    /\ \E target \in CelestialBodyId, central \in CentralBodies,
       start \in Epochs, end \in Epochs, steps \in 0..MaxSteps :
        /\ Call("get_traj",
                [target |-> target, central |-> central, start |-> start,
                 end |-> end, steps |-> steps],
                get_traj(target, central, start, end, steps, solar_system,
                         div_zero_panics))
        /\ UNCHANGED cosm

\* SolarSystem::set_positions(&visible_bodies, &epoch), on the visible
\* bodies of a selected body as spawn_visible calls it
SetPositions ==
    /\ Idle
    /\ \E selected_body \in CelestialBodyId, epoch \in Epochs :
        /\ Call("set_positions",
                [selected_body |-> selected_body, epoch |-> epoch],
                set_positions(get_visible_bodies(solar_system, iter_order,
                                                 selected_body), epoch))
        /\ UNCHANGED cosm

\* The next free entity id of the World whose Commands a direct caller of
\* spawn_visible passes in
FirstEntities == {0, 1}

\* solar_system.spawn_visible(&mut commands, .., selected_body, &epoch) by a
\* direct caller: the spawn commands are queued on the caller's Commands
SpawnVisible ==
    /\ Idle
    /\ \E selected_body \in CelestialBodyId, epoch \in Epochs,
          first_entity \in FirstEntities :
        /\ Call("spawn_visible",
                [selected_body |-> selected_body, epoch |-> epoch,
                 first_entity |-> first_entity],
                spawn_visible(solar_system, iter_order, selected_body, epoch,
                              first_entity))
        /\ UNCHANGED cosm

\* render_trajs(.., &solar_system, selected_body, cosm, epoch)
RenderTrajs ==
    /\ Idle
    /\ cosm # "none"
    /\ \E selected_body \in CelestialBodyId, epoch \in Epochs :
        /\ Call("render_trajs",
                [selected_body |-> selected_body, epoch |-> epoch],
                render_trajs(solar_system, iter_order, selected_body, epoch,
                             div_zero_panics))
        /\ UNCHANGED cosm

\* The caller drops the returned value
Return ==
    /\ op # "none"
    /\ op' = "none"
    /\ args' = NoArgs
    /\ result' = Ok(<<>>, 0, 0)
    /\ UNCHANGED <<solar_system, iter_order, div_zero_panics, cosm, loads>>
    /\ UNCHANGED app_vars

Next ==
    \/ DefaultEphemeris
    \/ GetVisibleBodies
    \/ GetPosition
    \/ GetTraj
    \/ SetPositions
    \/ SpawnVisible
    \/ RenderTrajs
    \/ Return

Spec == Init /\ [][Next]_vars

\* ---------------------------------------------------------------- main.rs
\* commands.entity(entity).despawn()
Despawn(entity) == [cmd |-> "despawn", entity |-> entity]

\* commands.spawn(bundle) of setup for the light, the camera and the test
\* polyline
SceneSpawn(kind, entity) ==
    [cmd |-> "spawn", entity |-> entity, kind |-> kind, name |-> kind,
     radius |-> 0, position |-> Vec3ZERO]

\* The entity a spawn command puts in the World
Spawned(command) ==
    [entity |-> command.entity, kind |-> command.kind, name |-> command.name,
     radius |-> command.radius, position |-> command.position]

\* The Vec<Entity> spawn_visible returns: the ids of its spawn commands
EntityIds(spawns) == [i \in 1..Len(spawns) |-> spawns[i].entity]

\* The command queue of a system applied to the World, in queue order
RECURSIVE ApplyCommands(_, _)
ApplyCommands(w, queue) ==
    IF queue = <<>>
    THEN w
    ELSE LET command == Head(queue)
             after == IF command.cmd = "spawn"
                      THEN w \cup {Spawned(command)}
                      ELSE {e \in w : e.entity # command.entity}
         IN  ApplyCommands(after, Tail(queue))

\* (variant: the drawn bodies are not despawned)
replace_bodies_NoDespawn(state, system, order, epoch, first_entity) ==
    LET spawned == spawn_visible(system, order, state.selected_body, epoch,
                                 first_entity)
    IN  IF spawned.kind = "panic"
        THEN Panic(spawned.cosm_reads, spawned.loaded)
        ELSE Ok([queue |-> spawned.value,
                 app_state |-> [state EXCEPT
                                  !.drawn_bodies = EntityIds(spawned.value)]],
                spawned.cosm_reads, spawned.loaded)

\* replace_bodies: a despawn for every drawn entity, then spawn_visible for
\* the selected body; its entities become drawn_bodies
replace_bodies(state, system, order, epoch, first_entity) ==
    LET despawns == [i \in 1..Len(state.drawn_bodies) |->
                        Despawn(state.drawn_bodies[i])]
        spawned == spawn_visible(system, order, state.selected_body, epoch,
                                 first_entity)
    IN  IF spawned.kind = "panic"
        THEN Panic(spawned.cosm_reads, spawned.loaded)
        ELSE Ok([queue |-> despawns \o spawned.value,
                 app_state |-> [state EXCEPT
                                  !.drawn_bodies = EntityIds(spawned.value)]],
                spawned.cosm_reads, spawned.loaded)

\* alternatives.iter().position(|&x| x == body)
PositionOf(alternatives, body) ==
    CHOOSE i \in 1..Len(alternatives) : alternatives[i] = body

\* The query variables the application's systems do not use
AppFrame == UNCHANGED <<div_zero_panics, cosm, op, args, result>>

\* The application before its Startup schedule: no AppState resource yet
AppInit ==
    /\ solar_system = SolarSystemDefault
    /\ iter_order = CelestialBodyIdIter
    /\ div_zero_panics \in BOOLEAN
    /\ cosm = "none"
    /\ loads = 0
    /\ op = "none"
    /\ args = NoArgs
    /\ result = Ok(<<>>, 0, 0)
    /\ AppNotStarted

\* setup: builds the registry, spawns the bodies visible from the default
\* body, then the light, the camera and the test polyline, and inserts
\* AppState.  The epoch handed to spawn_visible is any of Epochs.
Setup ==
    /\ app_pc = "startup"
    /\ \E order \in IterOrders, epoch \in Epochs :
        \E spawned \in {spawn_visible(SolarSystemNew, order, DefaultBodyId,
                                      epoch, next_entity)} :
        LET system == SolarSystemNew
            selected_body == DefaultBodyId
            n == Len(spawned.value)
            queue == spawned.value \o
                     << SceneSpawn("light", next_entity + n),
                        SceneSpawn("camera", next_entity + n + 1),
                        SceneSpawn("polyline", next_entity + n + 2) >>
        IN  /\ solar_system' = system
            /\ iter_order' = order
            /\ loads' = loads + spawned.loaded
            /\ IF spawned.kind = "panic"
               THEN /\ app_pc' = "crashed"
                    /\ UNCHANGED <<app_state, world, next_entity, commands>>
               ELSE /\ next_entity + n + 3 <= MaxEntities
                    /\ app_pc' = "running"
                    /\ app_state' = [selected_body |-> selected_body,
                                     drawn_bodies |-> EntityIds(spawned.value)]
                    /\ commands' = queue
                    /\ world' = ApplyCommands(world, queue)
                    /\ next_entity' = next_entity + n + 3
    /\ AppFrame

\* orbit_editor_ui, one frame: the combo box leaves selected_body_index or
\* sets it to any index of alternatives; on a change selected_body is set
\* and replace_bodies runs; the frame's command queue is then applied
OrbitEditorUi ==
    /\ app_pc = "running"
    /\ \E selected_body_index \in 1..Len(CelestialBodyIdIter), epoch \in Epochs :
        LET alternatives == CelestialBodyIdIter
        IN  IF selected_body_index # PositionOf(alternatives, app_state.selected_body)
            THEN LET state == [app_state EXCEPT
                                 !.selected_body = alternatives[selected_body_index]]
                 IN  \E replaced \in {replace_bodies(state, solar_system,
                                           iter_order, epoch, next_entity)} :
                     /\ loads' = loads + replaced.loaded
                     /\ IF replaced.kind = "panic"
                        THEN /\ app_pc' = "crashed"
                             /\ app_state' = state
                             /\ UNCHANGED <<world, next_entity, commands>>
                        ELSE LET n == Len(replaced.value.app_state.drawn_bodies)
                             IN  /\ next_entity + n <= MaxEntities
                                 /\ app_state' = replaced.value.app_state
                                 /\ commands' = replaced.value.queue
                                 /\ world' = ApplyCommands(world, commands')
                                 /\ next_entity' = next_entity + n
                                 /\ UNCHANGED app_pc
            ELSE /\ commands' = <<>>
                 /\ UNCHANGED <<app_pc, app_state, world, next_entity, loads>>
    /\ UNCHANGED <<solar_system, iter_order>>
    /\ AppFrame

AppNext ==
    \/ Setup
    \/ OrbitEditorUi

AppSpec == AppInit /\ [][AppNext]_vars

\* --------------------------------------------------------------- properties
\* The registry is the one SolarSystem::new builds
BuiltByNew == solar_system = SolarSystemNew

\* The elements of a sequence
Range(s) == {s[i] : i \in 1..Len(s)}

\* The held outcome is that of get_visible_bodies on a body of this type
VisibleOf(body_type) ==
    /\ op = "get_visible_bodies"
    /\ BuiltByNew
    /\ solar_system.bodies[args.body_id].body_type = body_type

\* C1: in the registry built by SolarSystem::new, get_visible_bodies of a
\* planet p returns p first, then exactly p's parent and the bodies whose
\* parent is p, each once and nothing else.
C1_PlanetVisibleSet ==
    VisibleOf("Planet") =>
        LET p == args.body_id
            bodies == solar_system.bodies
            expected == {bodies[p], bodies[bodies[p].parent_id]}
                            \cup {bodies[m] : m \in
                                    {k \in DOMAIN bodies : bodies[k].parent_id = p}}
        IN  /\ result.kind = "ok"
            /\ result.value[1] = bodies[p]
            /\ Range(result.value) = expected
            /\ Len(result.value) = Cardinality(expected)

\* Earth was queried and its moon is listed with Earth and the Sun
C1_Witness ==
    /\ VisibleOf("Planet")
    /\ args.body_id = "Earth"
    /\ Len(result.value) = 3
    /\ solar_system.bodies["Moon"] \in Range(result.value)

\* C2: get_visible_bodies of a moon m with parent p and grandparent s is
\* the sequence [m, p, s].
C2_MoonVisibleSequence ==
    VisibleOf("Moon") =>
        LET bodies == solar_system.bodies
            m == args.body_id
            p == bodies[m].parent_id
            s == bodies[p].parent_id
        IN  /\ result.kind = "ok"
            /\ result.value = <<bodies[m], bodies[p], bodies[s]>>

\* The Moon was queried and three bodies came back
C2_Witness ==
    /\ VisibleOf("Moon")
    /\ args.body_id = "Moon"
    /\ Len(result.value) = 3

\* C3: get_visible_bodies of a star is the star alone, however many bodies
\* name it as their parent.
C3_StarVisibleAlone ==
    VisibleOf("Star") =>
        /\ result.kind = "ok"
        /\ result.value = <<solar_system.bodies[args.body_id]>>

\* The Sun was queried while eight bodies name it as parent
C3_Witness ==
    /\ VisibleOf("Star")
    /\ args.body_id = "Sun"
    /\ Cardinality({k \in DOMAIN solar_system.bodies :
                       solar_system.bodies[k].parent_id = "Sun"}) = 8
    /\ Len(result.value) = 1

\* The held outcome is that of get_traj on a target present in the registry
TrajOf(body_types) ==
    /\ op = "get_traj"
    /\ args.target \in DOMAIN solar_system.bodies
    /\ args.target # "Sun"
    /\ solar_system.bodies[args.target].body_type \in body_types

\* The epoch of sample i (from 0) of the held get_traj call
SampleEpoch(i) ==
    args.start + i * DurationDiv(args.end - args.start, args.steps)

\* C4: a returned planet trajectory has one element per sampled epoch
\* t_i = start + i*step, i in [0, steps), each the target's heliocentric
\* position at t_i minus the reference's heliocentric position at start,
\* and no other element.
C4_PlanetTrajectoryOnlySamples ==
    (TrajOf({"Planet"}) /\ result.kind = "ok") =>
        /\ Len(result.value) = args.steps
        /\ \A i \in 1..Len(result.value) :
              /\ i <= args.steps
              /\ result.value[i] =
                    Vec3Sub(get_position(args.target, "Sun", SampleEpoch(i - 1)),
                            get_position(args.central, "Sun", args.start))

C6_ZeroStepsRejected ==
    (TrajOf({"Planet", "Moon"}) /\ args.steps = 0) =>
        result.kind = "InvalidSampleCountError"

\* C7: get_traj on the Sun returns the empty trajectory, for every
\* reference, span and step count, with no call into the Cosm.
C7_SunTrajectoryEmpty ==
    (op = "get_traj" /\ args.target = "Sun" /\ BuiltByNew) =>
        /\ result.kind = "ok"
        /\ result.value = <<>>
        /\ result.cosm_reads = 0

\* The Sun was sampled about the Earth with a positive step count
C7_Witness ==
    /\ op = "get_traj"
    /\ BuiltByNew
    /\ args.target = "Sun"
    /\ args.central = "Earth"
    /\ args.steps = MaxSteps
    /\ args.start < args.end
    /\ result.kind = "ok"

\* C8: a query for an id the registry lacks is answered with a typed
\* UnknownBodyError, by get_visible_bodies and by get_traj alike.
C8_UnknownBodyIsTypedError ==
    /\ (op = "get_visible_bodies"
          /\ args.body_id \notin DOMAIN solar_system.bodies)
            => result.kind = "UnknownBodyError"
    /\ (op = "get_traj" /\ args.target \notin DOMAIN solar_system.bodies)
            => result.kind = "UnknownBodyError"

\* The calls that answer a position or trajectory query
QueryOps == {"get_position", "set_positions", "get_traj", "render_trajs"}

\* C9: no position or trajectory query loads the ephemeris dataset; a
\* query only reads a handle it is given.
C9_QueriesNeverLoad ==
    [][op' \in QueryOps => loads' = loads]_vars

\* The polylines of the held render_trajs outcome
Polylines == result.value

\* C10 as stated: the sampled span follows the target's orbital period, so
\* two different bodies drawn by one render_trajs (the periods of the
\* catalog's bodies are pairwise different) are sampled over different
\* spans.
C10_SpanDiffersBetweenBodies ==
    (op = "render_trajs" /\ result.kind = "ok") =>
        \A i, j \in 1..Len(Polylines) :
            (/\ Polylines[i].call.target # Polylines[j].call.target
             /\ Polylines[i].call.target # "Sun"
             /\ Polylines[j].call.target # "Sun")
            => Polylines[i].call.end - Polylines[i].call.start
                 # Polylines[j].call.end - Polylines[j].call.start

\* The epoch of sample i (from 0) of a trajectory render_trajs draws
RenderEpoch(i) ==
    args.epoch + i * DurationDiv(TRAJ_TOTAL_TIME, TRAJ_POINTS)

\* C10 as amended: render_trajs samples every visible body over the same
\* span [epoch, epoch + TRAJ_TOTAL_TIME) in TRAJ_POINTS steps, whatever the
\* body's orbital period: the vertices of a moon's polyline are its rotated
\* positions at epoch + i*(TRAJ_TOTAL_TIME/TRAJ_POINTS), those of a
\* planet's polyline its rotated re-based heliocentric positions at the
\* same epochs followed by the rotated zero vector.
C10_SpanIsOneFixedYear ==
    (op = "render_trajs" /\ result.kind = "ok") =>
        \A k \in 1..Len(Polylines) :
            LET line == Polylines[k]
                target == line.call.target
                planet == solar_system.bodies[target].body_type = "Planet"
            IN  /\ line.call.start = args.epoch
                /\ line.call.end = args.epoch + TRAJ_TOTAL_TIME
                /\ line.call.steps = TRAJ_POINTS
                /\ target # "Sun" =>
                      /\ Len(line.vertices)
                            = IF planet THEN TRAJ_POINTS + 1 ELSE TRAJ_POINTS
                      /\ \A i \in 1..TRAJ_POINTS :
                            line.vertices[i] = equatorial_to_ecliptic(
                              IF planet
                              THEN Vec3Sub(
                                     get_position(target, "Sun", RenderEpoch(i - 1)),
                                     get_position(args.selected_body, "Sun",
                                                  args.epoch))
                              ELSE get_position(target, args.selected_body,
                                                RenderEpoch(i - 1)),
                              args.selected_body)

\* Earth was rendered: Earth and the Moon, of different periods, are both
\* drawn with the full number of samples
C10_Witness ==
    /\ op = "render_trajs"
    /\ result.kind = "ok"
    /\ args.selected_body = "Earth"
    /\ \E i, j \in 1..Len(Polylines) :
          /\ Polylines[i].call.target = "Earth"
          /\ Polylines[j].call.target = "Moon"
          /\ Len(Polylines[i].vertices) >= TRAJ_POINTS
          /\ Len(Polylines[j].vertices) >= TRAJ_POINTS

\* The body reached from id k by n parent steps in a bodies map, "None"
\* once the chain has ended or left the map
RECURSIVE Up(_, _, _)
Up(bodies, k, n) ==
    IF n = 0 THEN k
    ELSE LET below == Up(bodies, k, n - 1) IN
         IF below \in DOMAIN bodies THEN bodies[below].parent_id ELSE "None"

\* C11: in the catalog of SolarSystem::new a star has no parent, a planet's
\* parent is a star, a moon's parent is a planet, every parent id is a key,
\* no body is its own ancestor, and every body reaches a star in at most
\* two parent steps.
C11_CatalogHierarchy ==
    BuiltByNew =>
        LET bodies == solar_system.bodies
            TypeOf(k) == bodies[k].body_type
        IN  \A k \in DOMAIN bodies :
              /\ TypeOf(k) = "Star" => bodies[k].parent_id = "None"
              /\ bodies[k].parent_id # "None" =>
                    bodies[k].parent_id \in DOMAIN bodies
              /\ TypeOf(k) = "Planet" =>
                    /\ bodies[k].parent_id \in DOMAIN bodies
                    /\ TypeOf(bodies[k].parent_id) = "Star"
              /\ TypeOf(k) = "Moon" =>
                    /\ bodies[k].parent_id \in DOMAIN bodies
                    /\ TypeOf(bodies[k].parent_id) = "Planet"
              /\ \A n \in 1..Cardinality(DOMAIN bodies) : Up(bodies, k, n) # k
              /\ \E n \in 0..2 :
                    /\ Up(bodies, k, n) \in DOMAIN bodies
                    /\ TypeOf(Up(bodies, k, n)) = "Star"

\* The catalog is in use and its moon is two parent steps below the Sun
C11_Witness ==
    /\ BuiltByNew
    /\ op = "get_visible_bodies"
    /\ Up(solar_system.bodies, "Moon", 1) = "Earth"
    /\ Up(solar_system.bodies, "Moon", 2) = "Sun"

\* The bodies the held call drew or placed, as get_visible_bodies lists them
VisibleOfCall ==
    get_visible_bodies(solar_system, iter_order, args.selected_body)

\* The key under which the registry stores a body record
KeyOf(body) == CHOOSE k \in DOMAIN solar_system.bodies :
                   solar_system.bodies[k] = body

\* C12: the id used for a stored body in position and trajectory lookups
\* is the key it is stored under, whatever its display name: set_positions
\* places the body of key k, centred on and rotated for the selected key,
\* and render_trajs samples the body of key k.
C12_IdIsRegistryKey ==
    /\ (op = "set_positions" /\ result.kind = "ok") =>
          \A i \in 1..Len(VisibleOfCall) :
              result.value[i] =
                  equatorial_to_ecliptic(
                      get_position(KeyOf(VisibleOfCall[i]), args.selected_body,
                                   args.epoch),
                      args.selected_body)
    /\ (op = "render_trajs" /\ result.kind = "ok") =>
          \A i \in 1..Len(VisibleOfCall) :
              Polylines[i].call.target = KeyOf(VisibleOfCall[i])

\* w is v turned about the x axis by the axial tilt of body
TurnedByTiltOf(v, w, body) ==
    LET c == Cos1000(get_axial_tilt(body))
        s == Sin1000(get_axial_tilt(body))
    IN  /\ w[1] = v[1]
        /\ w[2] = Round1000(v[2] * c - v[3] * s)
        /\ w[3] = Round1000(v[2] * s + v[3] * c)

\* The trajectory render_trajs asks of get_traj for its i-th polyline
TrajOfPolyline(i) ==
    get_traj(Polylines[i].call.target, args.selected_body, args.epoch,
             args.epoch + TRAJ_TOTAL_TIME, TRAJ_POINTS, solar_system,
             div_zero_panics).value

\* C13: with the catalog of SolarSystem::new, every position of
\* set_positions and every vertex of render_trajs for a selected body S is
\* the unrotated position or trajectory point turned about x by the axial
\* tilt of S, its x component unchanged.
C13_RotatedBySelectedTilt ==
    /\ (op = "set_positions" /\ BuiltByNew /\ result.kind = "ok") =>
          /\ Len(result.value) = Len(VisibleOfCall)
          /\ \A i \in 1..Len(VisibleOfCall) :
                TurnedByTiltOf(
                    get_position(KeyOf(VisibleOfCall[i]), args.selected_body,
                                 args.epoch),
                    result.value[i], args.selected_body)
    /\ (op = "render_trajs" /\ BuiltByNew /\ result.kind = "ok") =>
          \A i \in 1..Len(Polylines) :
              LET traj == TrajOfPolyline(i) IN
              /\ Len(Polylines[i].vertices) = Len(traj)
              /\ \A j \in 1..Len(traj) :
                    TurnedByTiltOf(traj[j], Polylines[i].vertices[j],
                                   args.selected_body)

\* Uranus was selected: a placed body and a drawn vertex are turned by a
\* tilt that differs from the Earth's and from the Sun's
C13_Witness ==
    /\ BuiltByNew
    /\ op \in {"set_positions", "render_trajs"}
    /\ args.selected_body = "Uranus"
    /\ result.kind = "ok"
    /\ \/ /\ op = "set_positions"
          /\ Len(result.value) = 2
          /\ result.value[2] # get_position("Sun", "Uranus", args.epoch)
       \/ /\ op = "render_trajs"
          /\ Len(Polylines[1].vertices) = TRAJ_POINTS + 1
          /\ Polylines[1].vertices[2] # TrajOfPolyline(1)[2]

\* The operations C14 names, and render_trajs which reads the same registry
RegistryReaders ==
    {"get_visible_bodies", "set_positions", "spawn_visible", "get_position",
     "get_traj", "render_trajs"}

\* The held outcome is what the call gives on the registry as it is now
SameAsAlone ==
    /\ op = "get_visible_bodies" =>
          result.value = get_visible_bodies(solar_system, iter_order, args.body_id)
    /\ op = "set_positions" =>
          result = set_positions(VisibleOfCall, args.epoch)
    /\ op = "spawn_visible" =>
          result = spawn_visible(solar_system, iter_order, args.selected_body,
                                 args.epoch, args.first_entity)

Constructed == solar_system \in {SolarSystemNew, SolarSystemDefault}

\* C15: for every selected id and every registry the code can construct,
\* spawn_visible's indexed accesses are in bounds: the visible list is
\* non-empty and starts with the selected body, and there is one position
\* per visible body, in the same order.
C15_SpawnVisibleInBounds ==
    (op = "spawn_visible" /\ Constructed) =>
        /\ Len(VisibleOfCall) >= 1
        /\ VisibleOfCall[1] = solar_system.bodies[args.selected_body]
        /\ result.kind = "ok"
        /\ Len(result.value) = Len(VisibleOfCall)
        /\ \A i \in 1..Len(VisibleOfCall) :
              /\ result.value[i].name = VisibleOfCall[i].name
              /\ TurnedByTiltOf(
                     get_position(KeyOf(VisibleOfCall[i]), args.selected_body,
                                  args.epoch),
                     result.value[i].position, args.selected_body)

\* C15 on the catalog alone
C15_InBoundsOnCatalog ==
    BuiltByNew => C15_SpawnVisibleInBounds

\* The body entities alive in the World
BodyEntities == {e \in world : e.kind = "body"}

\* What get_visible_bodies gives for AppState.selected_body
VisibleOfApp ==
    get_visible_bodies(solar_system, iter_order, app_state.selected_body)

\* drawn_bodies is exactly the body entities alive, one per visible body of
\* the selected body and in its order, none twice
DrawnIsVisible ==
    app_pc = "running" =>
        LET drawn == app_state.drawn_bodies IN
        /\ Len(drawn) = Len(VisibleOfApp)
        /\ \A i, j \in 1..Len(drawn) : drawn[i] = drawn[j] => i = j
        /\ {e.entity : e \in BodyEntities} = Range(drawn)
        /\ Cardinality(BodyEntities) = Len(drawn)
        /\ \A i \in 1..Len(drawn) :
              \E e \in BodyEntities :
                  e.entity = drawn[i] /\ e.name = VisibleOfApp[i].name

\* One frame of the UI: on a change of selection every drawn entity has a
\* despawn ahead of all spawns and is gone afterwards; without a change
\* nothing is queued and nothing changes
FrameReplaces ==
    (app_pc = "running" /\ app_pc' = "running") =>
        IF app_state'.selected_body # app_state.selected_body
        THEN \A i \in 1..Len(app_state.drawn_bodies) :
                /\ \E k \in 1..Len(commands') :
                      /\ commands'[k].cmd = "despawn"
                      /\ commands'[k].entity = app_state.drawn_bodies[i]
                      /\ \A m \in 1..k : commands'[m].cmd = "despawn"
                /\ \A e \in world' : e.entity # app_state.drawn_bodies[i]
        ELSE /\ commands' = <<>>
             /\ world' = world
             /\ app_state' = app_state
             /\ next_entity' = next_entity

\* C16: after setup and any sequence of UI frames, AppState.drawn_bodies
\* holds exactly the entities spawned for
\* get_visible_bodies(AppState.selected_body); a change of the selected
\* index despawns every previously drawn entity before the new visible set
\* is spawned, and a frame without a change despawns and spawns nothing.
C16_DrawnBodiesFollowSelection ==
    /\ []DrawnIsVisible
    /\ [][FrameReplaces]_vars

\* The selection went from the default body to the Moon: the three entities
\* drawn for the Earth were despawned and the Moon's three are drawn
C16_Witness ==
    /\ app_pc = "running"
    /\ app_state.selected_body = "Moon"
    /\ Len(commands) = 6
    /\ commands[1] = Despawn(0)
    /\ commands[2] = Despawn(1)
    /\ commands[3] = Despawn(2)
    /\ commands[4].cmd = "spawn"
    /\ app_state.drawn_bodies = <<6, 7, 8>>
    /\ Cardinality(BodyEntities) = 3

====
